---- MODULE Spec2Model ----
(***************************************************************************)
(* Model of the multi-agent course-advisor pipeline:                       *)
(*   driver.main -> OrchestratorAgent.process_query ->                     *)
(*       ParserAgent.parse -> DataAgent.fetch_courses ->                   *)
(*       PlanningAgent.rank_courses -> final summarisation call            *)
(* The external collaborators (chat model, vector store) are               *)
(* nondeterministic: every reply is drawn from a small set of shapes the   *)
(* code distinguishes.  One turn of process_query is cut at its awaits.    *)
(***************************************************************************)
EXTENDS Integers, Sequences, FiniteSets, TLC

(* ------------------------------ bounds --------------------------------- *)
MaxTurns == 2        \* turns the driver loop is followed for
MaxHits == 2         \* longest id list the vector store answers with
MaxRanked == 1       \* longest ranked_courses list the ranking model answers with
MaxCourses == 2      \* longest course list CourseRAG is constructed over

(* --------------------------- option values ----------------------------- *)
\* Python None is the empty tuple, a present value x is <<x>>.
None == <<>>
Some(x) == <<x>>

Min(a, b) == IF a <= b THEN a ELSE b

(* ----------------------------- constants ------------------------------- *)
\* confidence is kept in hundredths; 0.65 is the parser's cap
ConfidenceCap == 65
\* planning agent is called with max_results=5
MaxResults == 5

ConfNull == -1       \* "confidence": null in the model's JSON

FixedClarifications ==
  << "What specific CS topics interest you? (e.g., AI, cybersecurity, web development, databases)",
     "What year are you in?",
     "Are you exploring for a career path or general interest?" >>

MsgParserTrouble == "I had trouble understanding your request: "
MsgNotCourseRelated == "I'm here to help with course recommendations at Rutgers CS. Your question seems to be about something else. Can you ask me about courses, prerequisites, or class planning?"
MsgOffTopic == "I specialize in helping Rutgers CS students find courses. Could you ask me something about course selection?"
MsgClarify == "I'd love to help you find courses! To give you the best recommendations, could you tell me:"
MsgNoDataAgent == "the data retrieval system is not available yet. "
MsgDataTrouble == "I couldn't retrieve course data: "
MsgNoCourses == "I couldn't find any courses matching your criteria. Could you try rephrasing your interests or being more specific?"
MsgRankTrouble == "I had trouble ranking the courses: "

\* what the chat model answers to the orchestrator's own calls
SummaryText == "summary text"
FallbackText == "fallback text"

(* ------------------------------ inputs --------------------------------- *)
Queries == {"I want CS courses"}

InterestLists ==
  { <<>>, <<"CS">>, <<"cs">>, <<"Computer Science">>, <<"CS", "AI">> }

\* str.lower() on the interest strings above
Lower(s) ==
  CASE s = "CS" -> "cs"
    [] s = "cs" -> "cs"
    [] s = "Computer Science" -> "computer science"
    [] s = "AI" -> "ai"
    [] OTHER -> s

\* a JSON object the parser model may return that carries all required keys
ParsedRecords ==
  [ intent : {"course_recommendation", "off_topic"},
    is_course_related : BOOLEAN,
    confidence : {ConfNull, 50, 90},
    needs_clarification : BOOLEAN,
    interests : InterestLists,
    suggested_clarifications : {<<>>, <<"Which area of CS?">>} ]

NoRecord == [ intent |-> "off_topic", is_course_related |-> FALSE, confidence |-> ConfNull,
              needs_clarification |-> FALSE, interests |-> <<>>,
              suggested_clarifications |-> <<>> ]

\* shapes of the parser model's reply that _llm_parse tells apart
ParserReplies ==
  { [kind |-> k, rec |-> NoRecord] : k \in {"raise", "nojson", "badjson", "missingkey"} }
  \cup { [kind |-> "json", rec |-> r] : r \in ParsedRecords }

(* --------------------------- AgentResponse ----------------------------- *)
\* of the metadata only the counts the planning agent reports are modelled;
\* every other response carries None there
AgentResponse(s, d, e) == [success |-> s, data |-> d, errors |-> e, metadata |-> None]

NoResponse == AgentResponse(FALSE, None, <<>>)

(* ----------------------------- ParserAgent ----------------------------- *)
\* self._get_fallback_parse is called but defined nowhere: the call raises
GetFallbackParse ==
  [raised |-> TRUE, exc |-> "'ParserAgent' object has no attribute '_get_fallback_parse'", value |-> None]

\* ParserAgent._llm_parse: one self.run(prompt), then JSON extraction
LlmParse(reply) ==
  CASE reply.kind = "raise" -> GetFallbackParse          \* except Exception
    [] reply.kind = "badjson" -> GetFallbackParse        \* except JSONDecodeError
    [] reply.kind = "missingkey" -> GetFallbackParse     \* raised in try, re-raised in except Exception
    [] reply.kind = "nojson" -> [raised |-> FALSE, exc |-> "", value |-> None]  \* falls off the end
    [] OTHER -> [raised |-> FALSE, exc |-> "", value |-> Some(reply.rec)]

\* the vague-query rule of ParserAgent.parse
IsGenericInterest(interests) ==
  /\ interests # <<>>
  /\ Len(interests) = 1
  /\ Lower(interests[1]) \in {"computer science", "cs"}

\* mutant: the confidence is set to the cap instead of being capped
ApplyGenericRule_SetsCap(rec) ==
  IF IsGenericInterest(rec.interests)
  THEN [rec EXCEPT !.needs_clarification = TRUE,
                   !.confidence = ConfidenceCap,
                   !.suggested_clarifications =
                       IF rec.suggested_clarifications = <<>>
                       THEN FixedClarifications
                       ELSE rec.suggested_clarifications]
  ELSE rec

ApplyGenericRule(rec) ==
  IF IsGenericInterest(rec.interests)
  THEN [rec EXCEPT !.needs_clarification = TRUE,
                   !.confidence = Min(rec.confidence, ConfidenceCap),
                   !.suggested_clarifications =
                       IF rec.suggested_clarifications = <<>>
                       THEN FixedClarifications
                       ELSE rec.suggested_clarifications]
  ELSE rec

\* ParserAgent.parse
Parse(reply) ==
  LET r == LlmParse(reply) IN
  IF r.raised
  THEN AgentResponse(FALSE, None, <<"Parsing error: " \o r.exc>>)
  ELSE IF r.value = None
  THEN AgentResponse(FALSE, None, <<"Parsing error: 'NoneType' object has no attribute 'get'">>)
  ELSE IF r.value[1].confidence = ConfNull
  THEN AgentResponse(FALSE, None, <<"Parsing error: unsupported format string passed to NoneType.__format__">>)
  ELSE AgentResponse(TRUE, Some(ApplyGenericRule(r.value[1])), <<>>)

(* ------------------------------ strings -------------------------------- *)
\* sep.join(xs) for a list of strings
RECURSIVE Join(_, _)
Join(xs, sep) ==
  IF xs = <<>> THEN ""
  ELSE IF Len(xs) = 1 THEN xs[1]
  ELSE xs[1] \o sep \o Join(Tail(xs), sep)

\* xs[-n:]
LastN(xs, n) ==
  IF Len(xs) <= n THEN xs ELSE SubSeq(xs, Len(xs) - n + 1, Len(xs))

(* ------------------------------ DataAgent ------------------------------ *)
\* course codes and titles are kept as character sequences
Code1 == <<"C", "S", ":", "1", "1">>
Code2 == <<"C", "S", ":", "1", "2">>
CodeStale == <<"C", "S", ":", "9", "9">>

\* self.courses_data, loaded from the course catalogue file
CoursesData ==
  << [code |-> Code1, title |-> <<"I", "n", "t", "r", "o", " ", "a", "i">>],
     [code |-> Code2, title |-> <<"I", "n", "t", "r", "o", " ", "d", "a", "t", "a">>] >>

\* ids held by the persistent vector collection (it may be older than the catalogue)
IndexIds == {Code1, Code2, CodeStale}

\* cosine distances in hundredths
Distances == {10, 40}

HitLists ==
  { h \in UNION { [1..n -> [id : IndexIds, dist : Distances]] : n \in 0..MaxHits } :
      /\ \A i, j \in 1..Len(h) : i < j => (h[i].id # h[j].id /\ h[i].dist <= h[j].dist) }

\* what vector_db.query does: raise, or answer with ids and distances
VectorReplies ==
  { [kind |-> "raise", hits |-> <<>>] } \cup { [kind |-> "hits", hits |-> h] : h \in HitLists }

\* the answers followed through a whole turn: the nearest ids in one fixed
\* order, cut at each length, and an answer holding only an id that is no
\* longer in the catalogue
NearestFirst ==
  << [id |-> Code1, dist |-> 10], [id |-> Code2, dist |-> 40], [id |-> CodeStale, dist |-> 40] >>

TurnVectorReplies ==
  { [kind |-> "raise", hits |-> <<>>], [kind |-> "hits", hits |-> <<NearestFirst[3]>>] }
  \cup { [kind |-> "hits", hits |-> SubSeq(NearestFirst, 1, n)] :
           n \in 0..Min(MaxHits, Len(NearestFirst)) }

\* DataAgent._build_search_query (of the entities only interests are modelled)
BuildSearchQuery(rec) ==
  IF rec.interests # <<>>
  THEN "courses about " \o Join(rec.interests, " ,")
  ELSE "computer science courses"

\* next((c for c in self.courses_data if c.get('code') == code), None)
FindCourse(code) ==
  IF \E i \in 1..Len(CoursesData) : CoursesData[i].code = code
  THEN Some(CoursesData[CHOOSE i \in 1..Len(CoursesData) :
                 /\ CoursesData[i].code = code
                 /\ \A j \in 1..(i - 1) : CoursesData[j].code # code])
  ELSE None

\* mutant: every match is put in front of the matches found before it
RECURSIVE RagRetrieve_Reversed(_)
RagRetrieve_Reversed(hits) ==
  IF hits = <<>> THEN <<>>
  ELSE LET c == FindCourse(hits[1].id) IN
       IF c # None
       THEN RagRetrieve_Reversed(Tail(hits))
            \o << [code |-> c[1].code, title |-> c[1].title,
                   semantic_similarity |-> 100 - hits[1].dist] >>
       ELSE RagRetrieve_Reversed(Tail(hits))

\* DataAgent._rag_retrieve: the loop over the returned ids
RECURSIVE RagRetrieve(_)
RagRetrieve(hits) ==
  IF hits = <<>> THEN <<>>
  ELSE LET c == FindCourse(hits[1].id) IN
       IF c # None
       THEN << [code |-> c[1].code, title |-> c[1].title,
                semantic_similarity |-> 100 - hits[1].dist] >> \o RagRetrieve(Tail(hits))
       ELSE RagRetrieve(Tail(hits))

\* DataAgent.fetch_courses
FetchCourses(rec, vreply) ==
  IF vreply.kind = "raise"
  THEN AgentResponse(FALSE, None, <<"Data retrieval error: vector store unavailable">>)
  ELSE LET matched == RagRetrieve(vreply.hits) IN
       AgentResponse(TRUE, Some([courses |-> matched, total_found |-> Len(matched)]), <<>>)

(* ---------------------------- PlanningAgent ---------------------------- *)
RankedLists ==
  UNION { [1..n -> {Code1, Code2}] : n \in 0..MaxRanked }

\* shapes of the ranking model's reply that _llm_rank tells apart
RankReplies ==
  { [kind |-> k, ranked |-> <<>>] : k \in {"raise", "nojson", "badjson", "noranked"} }
  \cup { [kind |-> "json", ranked |-> r] : r \in RankedLists }

\* the empty dict {} : no ranked_courses key
EmptyDict == [ranked_courses |-> None, ranking_summary |-> None]

\* PlanningAgent._llm_rank: one self.run(prompt), then JSON extraction
LlmRank(reply) ==
  IF reply.kind = "json"
  THEN [ranked_courses |-> Some(reply.ranked), ranking_summary |-> Some("summary")]
  ELSE EmptyDict

\* PlanningAgent.rank_courses
RankCourses(courses, reply, max_results) ==
  LET num_to_rank == Min(Len(courses), max_results) IN
  IF num_to_rank = 0
  THEN AgentResponse(FALSE, None, <<"No courses provided to rank">>)
  ELSE [AgentResponse(TRUE, Some(LlmRank(reply)), <<>>) EXCEPT
          !.metadata = Some([total_courses_considered |-> Len(courses),
                             courses_ranked |-> num_to_rank])]

\* dict.get(key, default) on an optional entry
GetOr(opt, default) == IF opt = None THEN default ELSE opt[1]

(* ------------------------- character strings --------------------------- *)
LowerLetters ==
  <<"a", "c", "d", "e", "i", "l", "n", "o", "q", "r", "s", "t", "u", "v", "x", "z">>
UpperLetters ==
  <<"A", "C", "D", "E", "I", "L", "N", "O", "Q", "R", "S", "T", "U", "V", "X", "Z">>
Digits == {"0", "1", "2", "3", "4", "5", "6", "7", "8", "9"}

LowerCh(c) ==
  IF \E i \in 1..Len(UpperLetters) : UpperLetters[i] = c
  THEN LowerLetters[CHOOSE i \in 1..Len(UpperLetters) : UpperLetters[i] = c]
  ELSE c

UpperCh(c) ==
  IF \E i \in 1..Len(LowerLetters) : LowerLetters[i] = c
  THEN UpperLetters[CHOOSE i \in 1..Len(LowerLetters) : LowerLetters[i] = c]
  ELSE c

\* str.lower(), str.upper()
StrLower(s) == [i \in 1..Len(s) |-> LowerCh(s[i])]
StrUpper(s) == [i \in 1..Len(s) |-> UpperCh(s[i])]

\* str.replace(ch, '')
RECURSIVE Remove(_, _)
Remove(s, ch) ==
  IF s = <<>> THEN <<>>
  ELSE IF s[1] = ch THEN Remove(Tail(s), ch)
  ELSE <<s[1]>> \o Remove(Tail(s), ch)

\* str.strip()
RECURSIVE LStrip(_)
LStrip(s) == IF s # <<>> /\ s[1] = " " THEN LStrip(Tail(s)) ELSE s

RECURSIVE RStrip(_)
RStrip(s) ==
  IF s # <<>> /\ s[Len(s)] = " " THEN RStrip(SubSeq(s, 1, Len(s) - 1)) ELSE s

Strip(s) == RStrip(LStrip(s))

\* sub in s
Contains(s, sub) ==
  \E i \in 0..(Len(s) - Len(sub)) : SubSeq(s, i + 1, i + Len(sub)) = sub

\* re.search(r'\d+', s): None, or the leftmost longest run of digits
FirstNumber(s) ==
  IF \A i \in 1..Len(s) : s[i] \notin Digits THEN None
  ELSE LET a == CHOOSE i \in 1..Len(s) :
                   s[i] \in Digits /\ \A j \in 1..(i - 1) : s[j] \notin Digits
           b == CHOOSE k \in a..Len(s) :
                   /\ \A j \in a..k : s[j] \in Digits
                   /\ (k = Len(s) \/ s[k + 1] \notin Digits)
       IN Some(SubSeq(s, a, b))

\* s.split(ch)[-1]
RECURSIVE LastField(_, _)
LastField(s, ch) ==
  IF \A i \in 1..Len(s) : s[i] # ch THEN s
  ELSE LastField(Tail(s), ch)

\* s.split(): the maximal runs of non-blank characters
RECURSIVE Words(_)
Words(s) ==
  LET t == LStrip(s) IN
  IF t = <<>> THEN <<>>
  ELSE IF \A i \in 1..Len(t) : t[i] # " " THEN <<t>>
  ELSE LET e == CHOOSE i \in 1..Len(t) : t[i] = " " /\ \A j \in 1..(i - 1) : t[j] # " "
       IN <<SubSeq(t, 1, e - 1)>> \o Words(SubSeq(t, e + 1, Len(t)))

\* [x for x in xs if keep(x)] for "len(term) > 2"
RECURSIVE LongTerms(_)
LongTerms(ws) ==
  IF ws = <<>> THEN <<>>
  ELSE IF Len(ws[1]) > 2 THEN <<ws[1]>> \o LongTerms(Tail(ws))
  ELSE LongTerms(Tail(ws))

(* ----------------------- DataAgent.lookup_course ------------------------ *)
\* the condition of the first loop of lookup_course for one course
CodeMatches(normalized, code) ==
  LET course_code == StrUpper(code)
      normalized_search == Remove(Remove(normalized, " "), ":")
      normalized_code == Remove(Remove(course_code, " "), ":")
      number_only == FirstNumber(normalized_search)
  IN \/ Contains(course_code, normalized)
     \/ Contains(normalized_code, normalized_search)
     \/ (number_only # None /\ Contains(LastField(normalized_code, ":"), number_only[1]))

\* the condition of the second loop of lookup_course for one course
TitleMatches(search_terms, title) ==
  /\ search_terms # <<>>
  /\ \A k \in 1..Len(search_terms) : Contains(StrLower(title), search_terms[k])

RECURSIVE TitleMatchList(_, _)
TitleMatchList(search_terms, courses) ==
  IF courses = <<>> THEN <<>>
  ELSE IF TitleMatches(search_terms, courses[1].title)
  THEN <<courses[1]>> \o TitleMatchList(search_terms, Tail(courses))
  ELSE TitleMatchList(search_terms, Tail(courses))

\* an identifier is a string, or some other value (then .strip() raises)
Identifiers ==
  { [is_str |-> FALSE, chars |-> <<>>] } \cup
  { [is_str |-> TRUE, chars |-> c] :
      c \in { <<>>, <<"c", "s", ":", "1", "2">>, <<"1">>, <<"I", "n", "t", "r", "o">>,
              <<" ", "d", "a", "t", "a">>, <<"z", "z", "z">>, <<"a", "i">>,
              <<"a", "i", " ", "1", "2">> } }

\* DataAgent.lookup_course
LookupCourse(ident) ==
  IF ~ident.is_str
  THEN AgentResponse(FALSE, None, <<"Course lookup error: object has no attribute 'strip'">>)
  ELSE
  LET normalized == StrLower(Strip(ident.chars))
      exact == { i \in 1..Len(CoursesData) : CodeMatches(normalized, CoursesData[i].code) }
      search_terms == LongTerms(Words(StrLower(normalized)))
      title_matches == TitleMatchList(search_terms, CoursesData)
  IN IF exact # {}
     THEN LET first == CHOOSE i \in exact : \A j \in exact : i <= j IN
          AgentResponse(TRUE,
                        Some([lookup_method |-> "exact_code_match",
                              courses |-> <<CoursesData[first]>>,
                              needs_disambiguation |-> FALSE]), <<>>)
     ELSE IF Len(title_matches) = 1
     THEN AgentResponse(TRUE,
                        Some([lookup_method |-> "title_keyword_match",
                              courses |-> title_matches,
                              needs_disambiguation |-> FALSE]), <<>>)
     ELSE IF Len(title_matches) > 1
     THEN AgentResponse(TRUE,
                        Some([lookup_method |-> "title_keyword_match_multiple",
                              courses |-> title_matches,
                              needs_disambiguation |-> TRUE]), <<>>)
     ELSE AgentResponse(FALSE,
                        Some([attempted_search |-> "course_identifier"]),
                        <<"No course found matching the identifier">>)

(* ------------------------------ CourseRAG ------------------------------ *)
\* the course catalogue file of agent.py; of a course the code and the title
\* are modelled, so credits and description read N/A in the course text
Catalogue ==
  << [code |-> "CS 111", title |-> "Intro to Computer Science"],
     [code |-> "CS 112", title |-> "Data Structures"],
     [code |-> "CS 440", title |-> "Intro to Artificial Intelligence"] >>

\* the course lists CourseRAG is constructed over: the catalogue cut at each
\* length, and its first two courses in the other order
RagCourseLists ==
  { SubSeq(Catalogue, 1, n) : n \in 1..Min(MaxCourses, Len(Catalogue)) }
  \cup { << Catalogue[2], Catalogue[1] >> }

\* CourseRAG._create_course_text
CreateCourseText(course) ==
  Join(<< "Course Code: " \o course.code, "Title: " \o course.title,
          "Credits: N/A", "Description: N/A" >>, " | ")

\* embeddings have Dim components (1536 in the program), here whole numbers
Dim == 2

\* [0.0] * 1536
ZeroVector == [i \in 1..Dim |-> 0]

\* what embedding_client.embeddings.create does: raise, or answer a vector
CourseEmbedReplies ==
  { [kind |-> "raise", embedding |-> ZeroVector] }
  \cup { [kind |-> "vector", embedding |-> v] : v \in { <<1, 0>>, <<-1, 1>> } }

QueryEmbedReplies ==
  { [kind |-> "raise", embedding |-> ZeroVector] }
  \cup { [kind |-> "vector", embedding |-> v] : v \in { <<1, 0>>, <<0, 1>>, <<1, 1>> } }

\* the top_k values retrieve_relevant_courses is called with (5 by default)
TopKs == {0, 1, 2, 5}

\* np.dot
RECURSIVE DotUpTo(_, _, _)
DotUpTo(vec1, vec2, n) ==
  IF n = 0 THEN 0 ELSE DotUpTo(vec1, vec2, n - 1) + vec1[n] * vec2[n]

Dot(vec1, vec2) == DotUpTo(vec1, vec2, Len(vec1))

\* the square root, rounded down: the largest r in lo..hi with r * r <= n
RECURSIVE SqrtBetween(_, _, _)
SqrtBetween(n, lo, hi) ==
  IF lo = hi THEN lo
  ELSE LET mid == (lo + hi + 1) \div 2 IN
       IF mid * mid <= n THEN SqrtBetween(n, mid, hi) ELSE SqrtBetween(n, lo, mid - 1)

ISqrt(n) == SqrtBetween(n, 0, n)

\* np.linalg.norm, in hundredths
Norm(vec) == ISqrt(Dot(vec, vec) * 10000)

\* CourseRAG._cosine_similarity, in hundredths
CosineSimilarity(vec1, vec2) ==
  LET dot_product == Dot(vec1, vec2)
      norm1 == Norm(vec1)
      norm2 == Norm(vec2) IN
  IF norm1 = 0 \/ norm2 = 0 THEN 0
  ELSE IF dot_product >= 0
       THEN (dot_product * 1000000) \div (norm1 * norm2)
       ELSE -(((-dot_product) * 1000000) \div (norm1 * norm2))

\* similarities.sort(key=lambda x: x[1], reverse=True): a stable sort, so that
\* pairs of equal similarity keep the order of their indices
RECURSIVE InsertBySimilarity(_, _)
InsertBySimilarity(x, sorted) ==
  IF sorted = <<>> THEN <<x>>
  ELSE IF sorted[1][2] >= x[2]
       THEN <<sorted[1]>> \o InsertBySimilarity(x, Tail(sorted))
       ELSE <<x>> \o sorted

RECURSIVE SortBySimilarity(_)
SortBySimilarity(similarities) ==
  IF similarities = <<>> THEN <<>>
  ELSE InsertBySimilarity(similarities[Len(similarities)],
                          SortBySimilarity(SubSeq(similarities, 1, Len(similarities) - 1)))

\* mutant: the slice stops one short of top_k
SliceTo_OneShort(xs, k) ==
  IF k > 0 THEN SubSeq(xs, 1, Min(k - 1, Len(xs))) ELSE <<>>

\* xs[:k]
SliceTo(xs, k) ==
  IF k >= 0 THEN SubSeq(xs, 1, Min(k, Len(xs)))
  ELSE SubSeq(xs, 1, IF Len(xs) + k > 0 THEN Len(xs) + k ELSE 0)

\* the body of retrieve_relevant_courses once the query is embedded; an index
\* past the end of self.courses raises, which the except clause turns into []
RelevantCourses(crs, embeddings, query_embedding, top_k) ==
  LET similarities == [i \in 1..Len(embeddings) |->
                         <<i, CosineSimilarity(query_embedding, embeddings[i])>>]
      top == SliceTo(SortBySimilarity(similarities), top_k) IN
  IF \E j \in 1..Len(top) : top[j][1] > Len(crs) THEN <<>>
  ELSE [j \in 1..Len(top) |->
          [code |-> crs[top[j][1]].code, title |-> crs[top[j][1]].title,
           relevance_score |-> top[j][2]]]

\* mutant: a failed query embedding is searched for as the zero vector
RetrieveRelevantCourses_ZeroQuery(crs, embeddings, qreply, top_k) ==
  RelevantCourses(crs, embeddings, qreply.embedding, top_k)

\* CourseRAG.retrieve_relevant_courses
RetrieveRelevantCourses(crs, embeddings, qreply, top_k) ==
  IF qreply.kind = "raise" THEN <<>>
  ELSE RelevantCourses(crs, embeddings, qreply.embedding, top_k)

\* rag_search_courses, with rag_system set: the text handed to the chat model
RagSearchCourses(relevant_courses) ==
  IF relevant_courses = <<>>
  THEN [text |-> "No courses found for query: ", listed |-> <<>>]
  ELSE [text |-> "Retrieved most relevant courses for: ",
        listed |-> [i \in 1..Len(relevant_courses) |-> relevant_courses[i].code]]

(* ---------------------- the embedding cache file ----------------------- *)
DigitChars == <<"0", "1", "2", "3", "4", "5", "6", "7", "8", "9">>

\* json.dump of a float: repr, as in 1.0 and -1.0
EncodeFloat(x) ==
  IF x < 0 THEN << "-", DigitChars[(-x) + 1], ".", "0" >>
  ELSE << DigitChars[x + 1], ".", "0" >>

\* mutant: the sign is lost when a number is read back
DecodeFloat_Unsigned(token) ==
  LET digits == IF token[1] = "-" THEN Tail(token) ELSE token IN
  (CHOOSE n \in 0..9 : DigitChars[n + 1] = digits[1])

\* json.load of a number
DecodeFloat(token) ==
  LET digits == IF token[1] = "-" THEN Tail(token) ELSE token
      magnitude == CHOOSE n \in 0..9 : DigitChars[n + 1] = digits[1] IN
  IF token[1] = "-" THEN -magnitude ELSE magnitude

\* json.dump and json.load of a string: the quotes go on and come off
EncodeText(t) == << "\"", t, "\"" >>

DecodeText(token) == token[2]

\* json.dump(cache_data, f)
DumpCache(embeddings, texts) ==
  [embeddings |-> [i \in 1..Len(embeddings) |->
                     [j \in 1..Len(embeddings[i]) |-> EncodeFloat(embeddings[i][j])]],
   texts |-> [i \in 1..Len(texts) |-> EncodeText(texts[i])]]

\* json.load(f)
LoadCache(doc) ==
  [embeddings |-> [i \in 1..Len(doc.embeddings) |->
                     [j \in 1..Len(doc.embeddings[i]) |-> DecodeFloat(doc.embeddings[i][j])]],
   texts |-> [i \in 1..Len(doc.texts) |-> DecodeText(doc.texts[i])]]

\* course_embeddings_cache.json: absent, a JSON document with both keys
\* ("json"), a JSON document that has 'embeddings' but no 'texts' key
\* ("incomplete"), or the partial text a write that failed under way leaves
\* behind ("partial")
CacheFile(state, doc) == [state |-> state, doc |-> doc]

EmptyDoc == [embeddings |-> <<>>, texts |-> <<>>]

NoCacheFile == CacheFile("absent", EmptyDoc)

\* a file at the cache path that this program did not write: one embedding
\* and no texts
IncompleteCacheFile ==
  CacheFile("incomplete", [embeddings |-> << << EncodeFloat(1), EncodeFloat(0) >> >>,
                           texts |-> <<>>])

\* what agent.py may find at the cache path when it is first started
PriorCacheFiles == { NoCacheFile, IncompleteCacheFile }

\* mutant: a cache of another size is loaded all the same
LoadCachedEmbeddings_AnySize(file, crs) ==
  IF file.state # "json"
  THEN [ok |-> FALSE, embeddings |-> <<>>, texts |-> <<>>]
  ELSE LET cache_data == LoadCache(file.doc) IN
       [ok |-> TRUE, embeddings |-> cache_data.embeddings, texts |-> cache_data.texts]

\* CourseRAG._load_cached_embeddings: whether the cache was taken, and the
\* index after the call (course_embeddings and course_texts are [] before it)
LoadCachedEmbeddings(file, crs) ==
  IF file.state \notin {"json", "incomplete"}  \* FileNotFoundError, JSONDecodeError
  THEN [ok |-> FALSE, embeddings |-> <<>>, texts |-> <<>>]
  ELSE LET cache_data == LoadCache(file.doc) IN
       IF Len(cache_data.embeddings) # Len(crs)
       THEN [ok |-> FALSE, embeddings |-> <<>>, texts |-> <<>>]
       ELSE IF file.state = "incomplete"      \* KeyError: 'texts', after the
       THEN [ok |-> FALSE,                    \* embeddings were assigned
             embeddings |-> cache_data.embeddings, texts |-> <<>>]
       ELSE [ok |-> TRUE, embeddings |-> cache_data.embeddings, texts |-> cache_data.texts]

\* mutant: a course whose embedding call failed gets the first unit vector
EmbeddingOf_UnitFallback(reply) ==
  IF reply.kind = "raise" THEN [i \in 1..Dim |-> IF i = 1 THEN 1 ELSE 0]
  ELSE reply.embedding

\* the try/except of _create_course_embeddings: the vector appended for a course
EmbeddingOf(reply) ==
  IF reply.kind = "raise" THEN ZeroVector ELSE reply.embedding

\* CourseRAG._create_course_embeddings: one call per course, in order
CreateCourseEmbeddings(crs, replies) ==
  [texts |-> [i \in 1..Len(crs) |-> CreateCourseText(crs[i])],
   embeddings |-> [i \in 1..Len(crs) |-> EmbeddingOf(replies[i])],
   calls |-> [i \in 1..Len(crs) |->
                [input |-> CreateCourseText(crs[i]), ok |-> replies[i].kind # "raise",
                 embedding |-> replies[i].embedding]]]

\* how _save_embeddings_cache is followed: the dump is written, or the file
\* is opened, which empties it, and the write raises under way
CacheSaveOutcomes == {"written", "write_failed"}

\* CourseRAG._save_embeddings_cache: the file after the call; every exception
\* is caught and printed as a warning
SaveEmbeddingsCache(file, embeddings, texts, outcome) ==
  CASE outcome = "written" -> CacheFile("json", DumpCache(embeddings, texts))
    [] outcome = "open_failed" -> file
    [] OTHER -> CacheFile("partial", EmptyDoc)

\* what is remembered of the last construction and of the last retrieval
NoBuild ==
  [loaded |-> FALSE, cold_start |-> FALSE, embed_calls |-> <<>>, cache_saved |-> "none"]

NoRetrieval ==
  [query_ok |-> FALSE, query_embedding |-> ZeroVector, top_k |-> 0, relevant_courses |-> <<>>]

(* ------------------- agent.py: validation and chat loop ----------------- *)
\* what content_safety_client.analyze_text does: raise, or answer the highest
\* severity found in a category
SafetyReplies ==
  { [kind |-> "raise", severity |-> 0] }
  \cup { [kind |-> "analysis", severity |-> n] : n \in {0, 2, 4} }

\* check_azure_content_safety: is_safe.  A category counts as a violation
\* above severity 1 for an output and above severity 2 for an input; a check
\* that raises passes
CheckAzureContentSafety(reply, context) ==
  IF reply.kind = "raise" THEN TRUE
  ELSE LET threshold == IF context = "output" THEN 1 ELSE 2 IN
       ~(reply.severity > threshold)

\* what the validation agent answers, as text
WordRelevant == <<"R", "E", "L", "E", "V", "A", "N", "T">>
WordIrrelevant == <<"I", "R">> \o WordRelevant
WordValid == <<"V", "A", "L", "I", "D">>
WordInvalid == <<"I", "N">> \o WordValid

LlmVerdicts ==
  { [kind |-> "raise", text |-> <<>>] }
  \cup { [kind |-> "text", text |-> t] :
           t \in { <<" ", "r", "e", "l", "e", "v", "a", "n", "t">>,
                   WordIrrelevant \o <<":", " ", "x">>,
                   WordValid,
                   <<"i", "n", "v", "a", "l", "i", "d">>,
                   <<"o", "x">> } }

\* check_with_llm_input: is_relevant, read off the stripped, upper-cased text
CheckWithLlmInput(reply, context) ==
  IF reply.kind = "raise" THEN FALSE
  ELSE LET result == StrUpper(Strip(reply.text)) IN
       IF context = "input"
       THEN Contains(result, WordRelevant) /\ ~Contains(result, WordIrrelevant)
       ELSE Contains(result, WordValid) /\ ~Contains(result, WordInvalid)

\* mutant: a text the safety check refused is handed on to the classifier
SafetyRejects_Never(is_safe) == FALSE

\* validate_user_input, validate_agent_output: "if not is_safe: return False"
SafetyRejects(is_safe) == ~is_safe

\* one check a validator made: which check, for which text, and its verdict
CheckEvent(check, context, verdict) ==
  [check |-> check, context |-> context, verdict |-> verdict]

\* the lines typed at "Your question: "
ChatLines ==
  { <<"q", "u", "i", "t">>, <<"Q", "u", "i", "t">>, <<" ", "q", "u", "i", "t">>,
    <<"a", "i">> }

\* user_query.lower() == "quit"
IsQuit(line) == StrLower(line) = <<"q", "u", "i", "t">>

\* what agent.run does: raise, or answer a text
AgentRunOutcomes == {"raise", "answer"}

\* main of agent.py between two prompts: nothing read, validated, run or printed
ChatIdle(turns) ==
  [pc |-> "input", turns |-> turns, user_query |-> <<>>, is_valid_input |-> None,
   agent_ran |-> FALSE, agent_output |-> "", is_valid_output |-> None,
   printed |-> "", checks |-> <<>>]

(* ------------------------------- state --------------------------------- *)
VARIABLES
  cfg,                \* which agents initialize_agents managed to construct
  pc,                 \* where the driver / process_query stands
  turn,               \* inputs the driver has read so far
  history,            \* state.conversation_history
  user_query,         \* state.user_query
  agents_invoked,     \* the list process_query builds and returns
  parser_reply,       \* the parser model's reply of this turn
  rank_reply,         \* the ranking model's reply of this turn
  parser_response,    \* AgentResponse of ParserAgent.parse
  data_response,      \* AgentResponse of DataAgent.fetch_courses
  planning_response,  \* AgentResponse of PlanningAgent.rank_courses
  response,           \* the text process_query returned
  calls,              \* external calls issued in this turn, in order
  op_name,            \* the agent operation last called on its own
  op_response,        \* and the AgentResponse it returned
  orchestrator,       \* driver: whether the name orchestrator is bound
  user_input,         \* driver: what input() gave last
  error,              \* driver: the exception the loop's except clause printed
  log_file,           \* conversation_log.json on disk
  log,                \* driver: log["sessions"], loaded when main started
  session,            \* driver: the session being recorded
  rag_courses,        \* CourseRAG.courses
  course_embeddings,  \* CourseRAG.course_embeddings
  course_texts,       \* CourseRAG.course_texts
  cache_file,         \* course_embeddings_cache.json on disk
  rag_op,             \* the CourseRAG operation that ran last
  built,              \* what the last construction of CourseRAG did
  retrieval,          \* what the last retrieve_relevant_courses did
  chat                \* agent.py: main's loop and the turn it is in

vars == << cfg, pc, turn, history, user_query, agents_invoked, parser_reply,
           rank_reply, parser_response, data_response,
           planning_response, response, calls, op_name, op_response,
           orchestrator, user_input, error, log_file, log, session,
           rag_courses, course_embeddings, course_texts, cache_file, rag_op, built,
           retrieval, chat >>

\* the driver's own state, which process_query and the agents never touch
driver_vars == << orchestrator, user_input, error, log_file, log, session >>

\* the state of agent.py, which the driver's program never touches
rag_vars == << rag_courses, course_embeddings, course_texts, cache_file, rag_op, built,
              retrieval, chat >>

\* agent.py before rag_system is constructed, with no cache on disk
RagInit ==
  /\ rag_courses = <<>>
  /\ course_embeddings = <<>>
  /\ course_texts = <<>>
  /\ cache_file = NoCacheFile
  /\ rag_op = "none"
  /\ built = NoBuild
  /\ retrieval = NoRetrieval
  /\ chat = ChatIdle(0)

NoReply == [kind |-> "none", rec |-> NoRecord]
NoRankReply == [kind |-> "none", ranked |-> <<>>]

\* OrchestratorAgent.initialize_agents: each agent is constructed in its own
\* try/except; parser_agent is preset to None, data_agent and planning_agent
\* stay unset attributes when their constructor raises
Configs == [parser_agent : BOOLEAN, data_agent : BOOLEAN, planning_agent : BOOLEAN]

(* ------------------------- the conversation log ------------------------ *)
\* conversation_log.json: absent, a JSON document {"sessions": [...]}, or the
\* partial text a write that failed under way leaves behind
LogFile(state, sessions) == [state |-> state, sessions |-> sessions]

NoLogFile == LogFile("absent", <<>>)

\* one element of session["turns"] (the timestamp is left out)
TurnRecord(q, invoked, text) ==
  [user_query |-> q, agents_invoked |-> invoked, response |-> text]

\* a session an earlier run of the driver recorded
OldSession ==
  [session_id |-> "s0", ended |-> TRUE,
   turns |-> << TurnRecord("What is CS 111?", <<"ParserAgent">>, MsgOffTopic) >>]

\* the session dict main creates before the loop: no ended_at key, no turns
NewSession == [session_id |-> "s1", ended |-> FALSE, turns |-> <<>>]

\* what the driver may find on disk when it starts
PriorLogFiles ==
  { NoLogFile, LogFile("json", <<>>), LogFile("json", <<OldSession>>) }

\* driver.load_log (a file that is not JSON makes main die before the loop)
LoadLog(file) == IF file.state = "absent" THEN <<>> ELSE file.sessions

\* how a call of save_log may end: the dump is written; open(log_file, "w")
\* raises and the file stays as it was; or the file is opened, which empties
\* it, and the write raises under way
SaveOutcomes == {"written", "open_failed", "write_failed"}

\* driver.save_log: the file after the call
SaveLog(file, sessions, outcome) ==
  CASE outcome = "written" -> LogFile("json", sessions)
    [] outcome = "open_failed" -> file
    [] OTHER -> LogFile("partial", <<>>)

\* the state when main enters its loop, with the orchestrator constructed, no
\* log on disk and any subset of the agents initialized
Init ==
  /\ cfg \in Configs
  /\ pc = "input"
  /\ turn = 0
  /\ history = <<>>
  /\ user_query = ""
  /\ agents_invoked = <<>>
  /\ parser_reply = NoReply
  /\ rank_reply = NoRankReply
  /\ parser_response = NoResponse
  /\ data_response = NoResponse
  /\ planning_response = NoResponse
  /\ response = ""
  /\ calls = <<>>
  /\ op_name = ""
  /\ op_response = NoResponse
  /\ orchestrator = TRUE
  /\ user_input = "none"
  /\ error = ""
  /\ log_file = NoLogFile
  /\ log = LoadLog(log_file)
  /\ session = NewSession
  /\ RagInit

\* the same, for every way main can reach its loop: OrchestratorAgent() may
\* have raised, which leaves the name orchestrator unbound, and the log file
\* may hold earlier sessions
NoAgents == [parser_agent |-> FALSE, data_agent |-> FALSE, planning_agent |-> FALSE]

InitDriver ==
  /\ orchestrator \in BOOLEAN
  /\ cfg \in (IF orchestrator THEN Configs ELSE {NoAgents})
  /\ pc = "input"
  /\ turn = 0
  /\ history = <<>>
  /\ user_query = ""
  /\ agents_invoked = <<>>
  /\ parser_reply = NoReply
  /\ rank_reply = NoRankReply
  /\ parser_response = NoResponse
  /\ data_response = NoResponse
  /\ planning_response = NoResponse
  /\ response = ""
  /\ calls = <<>>
  /\ op_name = ""
  /\ op_response = NoResponse
  /\ user_input = "none"
  /\ error = ""
  /\ log_file \in PriorLogFiles
  /\ log = LoadLog(log_file)
  /\ session = NewSession
  /\ RagInit

(* ---------------------------- Orchestrator ----------------------------- *)
\* OrchestratorAgent._format_history
FormatHistory(h) ==
  [i \in 1..Len(h) |->
     [role |-> IF h[i].role = "user" THEN "Student" ELSE "Advisor",
      content |-> h[i].content]]

\* one external call: who is called, the sections of the prompt, the history
\* and query text put into it, and whether the call returned
Call(target, parts, h, q, ok) ==
  [target |-> target, parts |-> parts, history |-> h, query |-> q, ok |-> ok]

\* ParserAgent._llm_parse: the prompt of self.run
ParserPrompt(q, h, ok) ==
  Call("parser", <<"Query", "Recent conversation context", "REFERENCE SCHEMA", "TASK">>,
       LastN(h, 4), q, ok)

\* DataAgent._rag_retrieve: self.vector_db.query
VectorQuery(q, ok) ==
  Call("vector_db", <<"query_texts">>, <<>>, q, ok)

\* PlanningAgent._llm_rank: the prompt of self.run
RankPrompt(q, h, ok) ==
  Call("ranker", <<"STUDENT PROFILE", "Recent conversation", "AVAILABLE COURSES", "TASK">>,
       LastN(h, 2), q, ok)

\* process_query: the context of the final self.agent.run
SummaryPrompt(q, h, ok) ==
  Call("orchestrator",
       <<"history", "Student Query", "Student Profile", "Ranking Summary",
         "TOP 5 RECOMMENDED COURSES", "instructions">>,
       FormatHistory(h), q, ok)

\* mutant: the fallback context also carries the student profile
FallbackPrompt_WithProfile(q, h, ok) ==
  Call("orchestrator", <<"history", "Student Query", "Student Profile">>, FormatHistory(h), q, ok)

\* process_query: fallback_context of the except clause
FallbackPrompt(q, h, ok) ==
  Call("orchestrator", <<"history", "Student Query">>, FormatHistory(h), q, ok)

\* the clarification text built from the suggestions
ClarifyMessage(suggestions) ==
  MsgClarify \o "\n" \o Join([i \in 1..Len(suggestions) |-> "- " \o suggestions[i]], "\n")

\* the early-exit tests of process_query, in the order the code makes them
ParserFailed(pr) == ~pr.success

\* mutant: the off_topic test is made before the is_course_related test
NotCourseRelated_AfterOffTopic(parsed_data) ==
  ~parsed_data.is_course_related /\ parsed_data.intent # "off_topic"

NotCourseRelated(parsed_data) == ~parsed_data.is_course_related

\* mutant: the intent label is misspelt
IsOffTopic_Misspelt(parsed_data) == parsed_data.intent = "offtopic"

IsOffTopic(parsed_data) == parsed_data.intent = "off_topic"

\* mutant: the short form "CS" is left out of the generic interests
ForceClarification_NoCS(interests) ==
  \/ interests = <<>>
  \/ interests = <<"Computer Science">>

\* the hard-coded check for overly generic queries
ForceClarification(interests) ==
  \/ interests = <<>>
  \/ interests = <<"Computer Science">>
  \/ interests = <<"CS">>

\* mutant: the clarification flag alone ends the turn
ClarificationExit_FlagOnly(parsed_data) == parsed_data.needs_clarification

\* the clarification branch: the flag, a non-empty suggestion list and the
\* check for generic interests, nested in this order
ClarificationExit(parsed_data) ==
  /\ parsed_data.needs_clarification
  /\ parsed_data.suggested_clarifications # <<>>
  /\ ForceClarification(parsed_data.interests)

DataFailed(dr) == ~dr.success

\* mutant: the empty result is never detected
NoCoursesFound_Never(courses) == Len(courses) < 0

\* mutant: the test is inverted
NoCoursesFound_Inverted(courses) == Len(courses) # 0

NoCoursesFound(courses) == Len(courses) = 0

PlanningFailed(plr) == ~plr.success

\* process_query returns (text, agents_invoked)
Return(text) ==
  /\ response' = text
  /\ pc' = "returned"

\* an exception reaches the except clause of process_query
Raise ==
  /\ response' = response
  /\ pc' = "fallback"

\* driver: read an input and call process_query, up to the await of the parser
ReadQuery(q) ==
  /\ pc = "input"
  /\ turn < MaxTurns
  /\ turn' = turn + 1
  /\ user_input' = "query"
  /\ user_query' = IF orchestrator /\ cfg.parser_agent THEN q ELSE user_query
  /\ parser_reply' = NoReply
  /\ rank_reply' = NoRankReply
  /\ parser_response' = NoResponse
  /\ data_response' = NoResponse
  /\ planning_response' = NoResponse
  /\ response' = ""
  /\ calls' = <<>>
  /\ IF orchestrator /\ cfg.parser_agent
     THEN /\ agents_invoked' = <<"ParserAgent">>
          /\ pc' = "parse"
          /\ error' = ""
     ELSE \* the name orchestrator is unbound (NameError), or process_query
          \* falls off its end and returns None, which the driver's tuple
          \* unpacking rejects (TypeError): the loop's except clause prints
          \* the error and the turn is dropped
          /\ agents_invoked' = <<>>
          /\ pc' = "input"
          /\ error' = IF orchestrator THEN "TypeError" ELSE "NameError"
  /\ UNCHANGED << cfg, history, op_name, op_response, orchestrator, log_file, log, session, rag_vars >>

\* parser_agent.parse answers; process_query runs on to the data agent call
ParserStep(reply) ==
  /\ pc = "parse"
  /\ parser_reply' = reply
  /\ calls' = Append(calls, ParserPrompt(user_query, history, reply.kind # "raise"))
  /\ LET pr == Parse(reply) IN
     /\ parser_response' = pr
     /\ IF ParserFailed(pr)
        THEN Return(MsgParserTrouble \o Join(pr.errors, ", ")) /\ UNCHANGED agents_invoked
        ELSE LET parsed_data == pr.data[1] IN
             IF NotCourseRelated(parsed_data)
             THEN Return(MsgNotCourseRelated) /\ UNCHANGED agents_invoked
             ELSE IF IsOffTopic(parsed_data)
             THEN Return(MsgOffTopic) /\ UNCHANGED agents_invoked
             ELSE IF ClarificationExit(parsed_data)
             THEN Return(ClarifyMessage(parsed_data.suggested_clarifications))
                  /\ UNCHANGED agents_invoked
             ELSE IF ~cfg.data_agent
             THEN Raise /\ UNCHANGED agents_invoked   \* AttributeError: self.data_agent
             ELSE /\ agents_invoked' = Append(agents_invoked, "Data Agent")
                  /\ pc' = "data"
                  /\ UNCHANGED response
  /\ UNCHANGED << cfg, turn, history, user_query, rank_reply,
                  data_response, planning_response, op_name, op_response, driver_vars, rag_vars >>

\* data_agent.fetch_courses answers; process_query runs on to the planning call
DataStep(vreply) ==
  /\ pc = "data"
  /\ LET parsed_data == parser_response.data[1]
         dr == FetchCourses(parsed_data, vreply) IN
     /\ calls' = Append(calls, VectorQuery(BuildSearchQuery(parsed_data), vreply.kind # "raise"))
     /\ data_response' = dr
     /\ IF DataFailed(dr)
        THEN Return(MsgDataTrouble \o Join(dr.errors, ", ")) /\ UNCHANGED agents_invoked
        ELSE IF NoCoursesFound(dr.data[1].courses)
        THEN Return(MsgNoCourses) /\ UNCHANGED agents_invoked
        ELSE /\ agents_invoked' = Append(agents_invoked, "Planning Agent")
             /\ IF ~cfg.planning_agent
                THEN Raise                        \* AttributeError: self.planning_agent
                ELSE pc' = "plan" /\ UNCHANGED response
  /\ UNCHANGED << cfg, turn, history, user_query, parser_reply, rank_reply,
                  parser_response, planning_response, op_name, op_response, driver_vars, rag_vars >>

\* planning_agent.rank_courses answers; process_query builds the final context
PlanStep(reply) ==
  /\ pc = "plan"
  /\ rank_reply' = reply
  /\ LET courses == data_response.data[1].courses
         plr == RankCourses(courses, reply, MaxResults) IN
     /\ calls' = IF Len(courses) = 0 THEN calls
                 ELSE Append(calls, RankPrompt(user_query, history, reply.kind # "raise"))
     /\ planning_response' = plr
     /\ IF PlanningFailed(plr)
        THEN Return(MsgRankTrouble \o Join(plr.errors, ", "))
        ELSE pc' = "final" /\ UNCHANGED response
  /\ UNCHANGED << cfg, turn, history, user_query, agents_invoked, parser_reply,
                  parser_response, data_response, op_name, op_response, driver_vars, rag_vars >>

\* self.agent.run(context): the final summarisation call
FinalStep(ok) ==
  /\ pc = "final"
  /\ calls' = Append(calls, SummaryPrompt(user_query, history, ok))
  /\ IF ok THEN Return(SummaryText) ELSE Raise
  /\ UNCHANGED << cfg, turn, history, user_query, agents_invoked, parser_reply,
                  rank_reply, parser_response, data_response,
                  planning_response, op_name, op_response, driver_vars, rag_vars >>

\* mutant: a failed fallback call is issued again
FallbackStep_Retries(ok) ==
  /\ pc = "fallback"
  /\ calls' = Append(calls, FallbackPrompt(user_query, history, ok))
  /\ IF ok THEN Return(FallbackText) ELSE (pc' = "fallback" /\ UNCHANGED response)
  /\ UNCHANGED << cfg, turn, history, user_query, agents_invoked, parser_reply,
                  rank_reply, parser_response, data_response,
                  planning_response, op_name, op_response, driver_vars, rag_vars >>

\* the except clause: self.agent.run(fallback_context)
FallbackStep(ok) ==
  /\ pc = "fallback"
  /\ calls' = Append(calls, FallbackPrompt(user_query, history, ok))
  /\ IF ok THEN Return(FallbackText) ELSE (pc' = "raised" /\ UNCHANGED response)
  /\ UNCHANGED << cfg, turn, history, user_query, agents_invoked, parser_reply,
                  rank_reply, parser_response, data_response,
                  planning_response, op_name, op_response, driver_vars, rag_vars >>

\* mutant: every message is recorded as a user message
AddMessage_AsUser(h, role, content) == Append(h, [role |-> "user", content |-> content])

\* ConversationState.add_message
AddMessage(h, role, content) == Append(h, [role |-> role, content |-> content])

\* driver: process_query returned a pair; both messages are recorded, the
\* turn is appended to the session and the log is saved.  A save_log that
\* raises is caught by the except clause of the loop.
TurnDone(saved) ==
  /\ pc = "returned"
  /\ history' = AddMessage(AddMessage(history, "user", user_query), "assistant", response)
  /\ session' = [session EXCEPT
                   !.turns = Append(@, TurnRecord(user_query, agents_invoked, response))]
  /\ log_file' = SaveLog(log_file, Append(log, session'), saved)
  /\ error' = IF saved = "written" THEN "" ELSE "OSError"
  /\ pc' = "input"
  /\ UNCHANGED << cfg, turn, user_query, agents_invoked, parser_reply, rank_reply,
                  parser_response, data_response, planning_response,
                  response, calls, op_name, op_response, orchestrator, user_input, log, rag_vars >>

\* mutant: an exception that leaves process_query ends the loop
TurnFailed_Fatal ==
  /\ pc = "raised"
  /\ pc' = "crashed"
  /\ error' = "fallback call raised"
  /\ UNCHANGED << cfg, turn, history, user_query, agents_invoked, parser_reply,
                  rank_reply, parser_response, data_response,
                  planning_response, response, calls, op_name, op_response,
                  orchestrator, user_input, log_file, log, session, rag_vars >>

\* driver: process_query raised; the except clause of the loop absorbs it
TurnFailed ==
  /\ pc = "raised"
  /\ pc' = "input"
  /\ error' = "fallback call raised"
  /\ UNCHANGED << cfg, turn, history, user_query, agents_invoked, parser_reply,
                  rank_reply, parser_response, data_response,
                  planning_response, response, calls, op_name, op_response,
                  orchestrator, user_input, log_file, log, session, rag_vars >>

\* the lines that end the loop, after strip() and lower()
ExitKeywords == { <<"q", "u", "i", "t">>, <<"e", "x", "i", "t">>, <<"q">> }

\* lines typed that are not queries
ControlLines ==
  { <<>>, <<" ">>, <<"q">>, <<" ", "Q", " ">>, <<"q", "u", "i", "t">>,
    <<"E", "x", "i", "t", " ">> }

\* user_input.lower() in ['quit', 'exit', 'q'], on the stripped line
IsExitLine(line) == StrLower(Strip(line)) \in ExitKeywords

\* not user_input, on the stripped line
IsBlankLine(line) == Strip(line) = <<>>

\* driver: an empty line is skipped
ReadBlank(line) ==
  /\ pc = "input"
  /\ turn < MaxTurns
  /\ ~IsExitLine(line)
  /\ IsBlankLine(line)
  /\ turn' = turn + 1
  /\ user_input' = "blank"
  /\ UNCHANGED << cfg, pc, history, user_query, agents_invoked, parser_reply,
                  rank_reply, parser_response, data_response,
                  planning_response, response, calls, op_name, op_response,
                  orchestrator, error, log_file, log, session, rag_vars >>

\* driver: after the loop the session gets ended_at, joins log["sessions"]
\* and the log is saved, outside any try
LeaveLoop(saved) ==
  /\ session' = [session EXCEPT !.ended = TRUE]
  /\ log' = Append(log, session')
  /\ log_file' = SaveLog(log_file, log', saved)
  /\ pc' = IF saved = "written" THEN "done" ELSE "crashed"
  /\ UNCHANGED << cfg, turn, history, user_query, agents_invoked, parser_reply,
                  rank_reply, parser_response, data_response,
                  planning_response, response, calls, op_name, op_response,
                  orchestrator, error, rag_vars >>

\* driver: an exit keyword breaks the loop
ReadExit(line, saved) ==
  /\ pc = "input"
  /\ IsExitLine(line)
  /\ user_input' = "keyword"
  /\ LeaveLoop(saved)

\* driver: input() raises EOFError or KeyboardInterrupt, which breaks the loop
EndOfInput(saved) ==
  /\ pc = "input"
  /\ user_input' = "eof"
  /\ LeaveLoop(saved)

\* process_query followed turn by turn under every reply of the models, with
\* a log that is always written and a driver that keeps reading
Next ==
  \/ \E q \in Queries : ReadQuery(q)
  \/ \E reply \in ParserReplies : ParserStep(reply)
  \/ \E vreply \in TurnVectorReplies : DataStep(vreply)
  \/ \E reply \in RankReplies : PlanStep(reply)
  \/ \E ok \in BOOLEAN : FinalStep(ok)
  \/ \E ok \in BOOLEAN : FallbackStep(ok)
  \/ TurnDone("written")
  \/ TurnFailed

Spec == Init /\ [][Next]_vars

(* ------------------------- the driver as a whole ------------------------ *)
\* the replies the driver is followed under: one of each kind that gives a
\* turn a different outcome
DriverParserReplies ==
  { r \in ParserReplies :
      \/ r.kind = "raise"
      \/ /\ r.kind = "json"
         /\ r.rec.is_course_related
         /\ r.rec.confidence = 90
         /\ ~r.rec.needs_clarification
         /\ r.rec.interests = <<"CS", "AI">>
         /\ r.rec.suggested_clarifications = <<>> }

DriverVectorReplies ==
  { v \in TurnVectorReplies : v.kind = "hits" /\ Len(v.hits) <= 1 }

DriverRankReplies == { r \in RankReplies : r.kind = "json" /\ r.ranked = <<>> }

NextDriver ==
  \/ \E q \in Queries : ReadQuery(q)
  \/ \E line \in ControlLines : ReadBlank(line)
  \/ \E line \in ControlLines, saved \in SaveOutcomes : ReadExit(line, saved)
  \/ \E saved \in SaveOutcomes : EndOfInput(saved)
  \/ \E reply \in DriverParserReplies : ParserStep(reply)
  \/ \E vreply \in DriverVectorReplies : DataStep(vreply)
  \/ \E reply \in DriverRankReplies : PlanStep(reply)
  \/ \E ok \in BOOLEAN : FinalStep(ok)
  \/ \E ok \in BOOLEAN : FallbackStep(ok)
  \/ \E saved \in SaveOutcomes : TurnDone(saved)
  \/ TurnFailed

SpecDriver == InitDriver /\ [][NextDriver]_vars

(* ------------------ the agent operations called on their own ------------ *)
pipeline_vars == << cfg, pc, turn, history, user_query, agents_invoked, parser_reply,
                    rank_reply, parser_response, data_response,
                    planning_response, response, calls, driver_vars >>

ops_vars == << pipeline_vars, rag_vars >>

CourseLists ==
  { <<>>,
    <<[code |-> Code1, title |-> CoursesData[1].title, semantic_similarity |-> 90]>>,
    <<[code |-> Code1, title |-> CoursesData[1].title, semantic_similarity |-> 90],
      [code |-> Code2, title |-> CoursesData[2].title, semantic_similarity |-> 60]>> }

\* parsed records fetch_courses is called with on its own
FetchRecords ==
  { r \in ParsedRecords : /\ r.is_course_related
                          /\ r.intent = "course_recommendation"
                          /\ r.confidence = 90
                          /\ ~r.needs_clarification
                          /\ r.suggested_clarifications = <<>> }

\* the ranking model is free to list more courses than it was given or asked for
OpsRankReplies ==
  RankReplies
  \cup { [kind |-> "json", ranked |-> r] : r \in [1..(MaxRanked + 1) -> {Code1, Code2}] }

CallParse(reply) ==
  /\ op_name' = "ParserAgent.parse"
  /\ op_response' = Parse(reply)
  /\ UNCHANGED ops_vars

CallFetchCourses(rec, vreply) ==
  /\ op_name' = "DataAgent.fetch_courses"
  /\ op_response' = FetchCourses(rec, vreply)
  /\ UNCHANGED ops_vars

CallLookupCourse(ident) ==
  /\ op_name' = "DataAgent.lookup_course"
  /\ op_response' = LookupCourse(ident)
  /\ UNCHANGED ops_vars

CallRankCourses(courses, reply, max_results) ==
  /\ op_name' = "PlanningAgent.rank_courses"
  /\ op_response' = RankCourses(courses, reply, max_results)
  /\ UNCHANGED ops_vars

NextOps ==
  \/ \E reply \in ParserReplies : CallParse(reply)
  \/ \E rec \in FetchRecords, vreply \in VectorReplies : CallFetchCourses(rec, vreply)
  \/ \E ident \in Identifiers : CallLookupCourse(ident)
  \/ \E courses \in CourseLists, reply \in OpsRankReplies, n \in {1, MaxResults} :
       CallRankCourses(courses, reply, n)

SpecOps == Init /\ [][NextOps]_vars

(* ------------------- agent.py: CourseRAG and its cache ------------------ *)
\* mutant: the cache is never consulted
ConstructIndex_AlwaysBuilds(file, crs, replies, outcome) ==
  LET made == CreateCourseEmbeddings(crs, replies) IN
  [embeddings |-> made.embeddings,
   texts |-> made.texts,
   file |-> SaveEmbeddingsCache(file, made.embeddings, made.texts, outcome),
   built |-> [loaded |-> FALSE, cold_start |-> file.state = "absent",
              embed_calls |-> made.calls, cache_saved |-> outcome]]

\* CourseRAG.__init__: the index, the cache file and what was done
ConstructIndex(file, crs, replies, outcome) ==
  LET ld == LoadCachedEmbeddings(file, crs) IN
  IF ld.ok
  THEN [embeddings |-> ld.embeddings,
        texts |-> ld.texts,
        file |-> file,
        built |-> [loaded |-> TRUE, cold_start |-> FALSE, embed_calls |-> <<>>,
                   cache_saved |-> "none"]]
  ELSE LET made == CreateCourseEmbeddings(crs, replies)
           embeddings == ld.embeddings \o made.embeddings
           texts == ld.texts \o made.texts IN
       [embeddings |-> embeddings,
        texts |-> texts,
        file |-> SaveEmbeddingsCache(file, embeddings, texts, outcome),
        built |-> [loaded |-> FALSE, cold_start |-> file.state = "absent",
                   embed_calls |-> made.calls, cache_saved |-> outcome]]

\* agent.py is started: rag_system = CourseRAG(COURSES)
Construct(crs, replies, outcome) ==
  /\ rag_op \in {"none", "exited"}
  /\ LET made == ConstructIndex(cache_file, crs, replies, outcome) IN
     /\ course_embeddings' = made.embeddings
     /\ course_texts' = made.texts
     /\ cache_file' = made.file
     /\ built' = made.built
  /\ rag_courses' = crs
  /\ rag_op' = "construct"
  /\ retrieval' = NoRetrieval
  /\ UNCHANGED << pipeline_vars, op_name, op_response, chat >>

\* rag_search_courses calls rag_system.retrieve_relevant_courses
Retrieve(qreply, top_k) ==
  /\ rag_op \in {"construct", "retrieve"}
  /\ retrieval' =
       [query_ok |-> qreply.kind # "raise",
        query_embedding |-> qreply.embedding,
        top_k |-> top_k,
        relevant_courses |->
          RetrieveRelevantCourses(rag_courses, course_embeddings, qreply, top_k)]
  /\ rag_op' = "retrieve"
  /\ UNCHANGED << pipeline_vars, op_name, op_response, rag_courses, course_embeddings,
                  course_texts, cache_file, built, chat >>

\* agent.py ends; the index it held is kept to compare the next one with
EndProcess ==
  /\ rag_op \in {"construct", "retrieve"}
  /\ rag_op' = "exited"
  /\ retrieval' = NoRetrieval
  /\ UNCHANGED << pipeline_vars, op_name, op_response, rag_courses, course_embeddings,
                  course_texts, cache_file, built, chat >>

\* the two retrieval operations of the repository belong to two programs: a
\* behaviour follows agent.py through runs of constructions and retrievals,
\* or calls DataAgent.fetch_courses
NextRAG ==
  \/ \E crs \in RagCourseLists :
       \E replies \in [1..Len(crs) -> CourseEmbedReplies], outcome \in CacheSaveOutcomes :
         op_name = "" /\ Construct(crs, replies, outcome)
  \/ EndProcess
  \/ \E qreply \in QueryEmbedReplies, top_k \in TopKs : Retrieve(qreply, top_k)
  \/ \E rec \in FetchRecords, vreply \in VectorReplies :
       rag_op = "none" /\ CallFetchCourses(rec, vreply)

\* the orchestrator's agents play no part in these operations
InitRAG == Init /\ cfg = NoAgents

SpecRAG == InitRAG /\ [][NextRAG]_vars

\* the same program started with whatever is at the cache path: nothing, or a
\* file from elsewhere
InitCache ==
  /\ cfg = NoAgents
  /\ pc = "input"
  /\ turn = 0
  /\ history = <<>>
  /\ user_query = ""
  /\ agents_invoked = <<>>
  /\ parser_reply = NoReply
  /\ rank_reply = NoRankReply
  /\ parser_response = NoResponse
  /\ data_response = NoResponse
  /\ planning_response = NoResponse
  /\ response = ""
  /\ calls = <<>>
  /\ op_name = ""
  /\ op_response = NoResponse
  /\ orchestrator = TRUE
  /\ user_input = "none"
  /\ error = ""
  /\ log_file = NoLogFile
  /\ log = LoadLog(log_file)
  /\ session = NewSession
  /\ rag_courses = <<>>
  /\ course_embeddings = <<>>
  /\ course_texts = <<>>
  /\ cache_file \in PriorCacheFiles
  /\ rag_op = "none"
  /\ built = NoBuild
  /\ retrieval = NoRetrieval
  /\ chat = ChatIdle(0)

SpecCache == InitCache /\ [][NextRAG]_vars

(* ----------------------- agent.py: the chat loop ------------------------ *)
\* what main prints for a turn
PrintInputFailed == " Input validation failed: "
PrintOutputFailed == " Output validation failed: "
PrintError == " Error: "
AgentAnswer == "agent answer"

chat_others == << pipeline_vars, op_name, op_response, rag_courses, course_embeddings,
                  course_texts, cache_file, rag_op, built, retrieval >>

\* main: a line is read; "quit" ends the loop, any other line goes to
\* validate_user_input, which runs up to the await of the classifier
ChatRead(line, sreply) ==
  /\ chat.pc = "input"
  /\ IsQuit(line) \/ chat.turns < MaxTurns
  /\ IF IsQuit(line)
     THEN chat' = [ChatIdle(chat.turns) EXCEPT !.pc = "done", !.user_query = line]
     ELSE LET is_safe == CheckAzureContentSafety(sreply, "input")
              turn_start == [ChatIdle(chat.turns + 1) EXCEPT
                               !.user_query = line,
                               !.checks = << CheckEvent("safety", "input", is_safe) >>] IN
          IF SafetyRejects(is_safe)
          THEN chat' = [turn_start EXCEPT !.is_valid_input = Some(FALSE),
                                          !.printed = PrintInputFailed]
          ELSE chat' = [turn_start EXCEPT !.pc = "input_llm"]
  /\ UNCHANGED chat_others

\* validate_user_input: the classifier has answered; a valid input starts
\* agent.run, any other ends the turn
ChatInputLlm(reply) ==
  /\ chat.pc = "input_llm"
  /\ LET is_relevant == CheckWithLlmInput(reply, "input") IN
     chat' = [chat EXCEPT
                !.checks = Append(@, CheckEvent("llm", "input", is_relevant)),
                !.is_valid_input = Some(is_relevant),
                !.agent_ran = is_relevant,
                !.printed = IF is_relevant THEN "" ELSE PrintInputFailed,
                !.pc = IF is_relevant THEN "agent" ELSE "input"]
  /\ UNCHANGED chat_others

\* agent.run calls the tool rag_search_courses, with its default top_k
ChatToolCall(qreply) ==
  /\ chat.pc = "agent"
  /\ Retrieve(qreply, 5)

\* agent.run has ended: an exception is printed; an answer goes to
\* validate_agent_output, which runs up to the await of the classifier
ChatAgentDone(outcome, sreply) ==
  /\ chat.pc = "agent"
  /\ IF outcome = "raise"
     THEN chat' = [chat EXCEPT !.printed = PrintError, !.pc = "input"]
     ELSE LET is_safe == CheckAzureContentSafety(sreply, "output")
              answered == [chat EXCEPT
                             !.agent_output = AgentAnswer,
                             !.checks = Append(@, CheckEvent("safety", "output", is_safe))] IN
          IF SafetyRejects(is_safe)
          THEN chat' = [answered EXCEPT !.is_valid_output = Some(FALSE),
                                        !.printed = PrintOutputFailed,
                                        !.pc = "input"]
          ELSE chat' = [answered EXCEPT !.pc = "output_llm"]
  /\ UNCHANGED chat_others

\* validate_agent_output: the classifier has answered; a valid answer is printed
ChatOutputLlm(reply) ==
  /\ chat.pc = "output_llm"
  /\ LET is_relevant == CheckWithLlmInput(reply, "output") IN
     chat' = [chat EXCEPT
                !.checks = Append(@, CheckEvent("llm", "output", is_relevant)),
                !.is_valid_output = Some(is_relevant),
                !.printed = IF is_relevant THEN chat.agent_output ELSE PrintOutputFailed,
                !.pc = "input"]
  /\ UNCHANGED chat_others

NextChat ==
  \/ \E line \in ChatLines, sreply \in SafetyReplies : ChatRead(line, sreply)
  \/ \E reply \in LlmVerdicts : ChatInputLlm(reply)
  \/ \E qreply \in QueryEmbedReplies : ChatToolCall(qreply)
  \/ \E outcome \in AgentRunOutcomes, sreply \in SafetyReplies : ChatAgentDone(outcome, sreply)
  \/ \E reply \in LlmVerdicts : ChatOutputLlm(reply)

\* main enters its loop only with rag_system constructed: here over the first
\* course of the catalogue, with no cache on disk before
InitChat ==
  /\ cfg = NoAgents
  /\ pc = "input"
  /\ turn = 0
  /\ history = <<>>
  /\ user_query = ""
  /\ agents_invoked = <<>>
  /\ parser_reply = NoReply
  /\ rank_reply = NoRankReply
  /\ parser_response = NoResponse
  /\ data_response = NoResponse
  /\ planning_response = NoResponse
  /\ response = ""
  /\ calls = <<>>
  /\ op_name = ""
  /\ op_response = NoResponse
  /\ orchestrator = TRUE
  /\ user_input = "none"
  /\ error = ""
  /\ log_file = NoLogFile
  /\ log = LoadLog(log_file)
  /\ session = NewSession
  /\ \E reply \in CourseEmbedReplies :
       LET crs == SubSeq(Catalogue, 1, 1)
           made == ConstructIndex(NoCacheFile, crs, << reply >>, "written") IN
       /\ rag_courses = crs
       /\ course_embeddings = made.embeddings
       /\ course_texts = made.texts
       /\ cache_file = made.file
       /\ built = made.built
  /\ rag_op = "construct"
  /\ retrieval = NoRetrieval
  /\ chat = ChatIdle(0)

SpecChat == InitChat /\ [][NextChat]_vars

(* =============================== claims ================================ *)
IsPrefix(a, b) == Len(a) <= Len(b) /\ SubSeq(b, 1, Len(a)) = a

InSeq(x, xs) == \E i \in 1..Len(xs) : xs[i] = x

\* positions in the call log of the calls to one target
CallsTo(target) == { i \in 1..Len(calls) : calls[i].target = target }

SummaryParts ==
  <<"history", "Student Query", "Student Profile", "Ranking Summary",
    "TOP 5 RECOMMENDED COURSES", "instructions">>

FallbackParts == <<"history", "Student Query">>

SummaryCalls == { i \in CallsTo("orchestrator") : calls[i].parts = SummaryParts }

FallbackCalls == { i \in CallsTo("orchestrator") : calls[i].parts # SummaryParts }

StageRank(target) ==
  CASE target = "parser" -> 1
    [] target = "vector_db" -> 2
    [] target = "ranker" -> 3
    [] OTHER -> 4

\* the parsed record of a successful parse
Parsed == parser_response.data[1]

Courses == data_response.data[1].courses

\* C1: in every turn the stages are entered in the order parser, data,
\* planning, final response: agents_invoked is a prefix of
\* [ParserAgent, Data Agent, Planning Agent], the external calls follow that
\* order, the data agent is entered only after a successful parse, the
\* planning agent only after a successful retrieval with at least one course,
\* and the summarisation call is issued only after a successful ranking.
C1_StageOrder ==
  /\ IsPrefix(agents_invoked, <<"ParserAgent", "Data Agent", "Planning Agent">>)
  /\ \A i, j \in 1..Len(calls) :
       i < j => StageRank(calls[i].target) <= StageRank(calls[j].target)
  /\ (InSeq("Data Agent", agents_invoked) \/ CallsTo("vector_db") # {} \/ pc = "data")
       => parser_response.success
  /\ (InSeq("Planning Agent", agents_invoked) \/ CallsTo("ranker") # {} \/ pc = "plan")
       => (data_response.success /\ Len(Courses) >= 1)
  /\ (SummaryCalls # {} \/ pc = "final")
       => (planning_response.success /\ CallsTo("ranker") # {})

C1_Witness ==
  /\ pc = "returned"
  /\ response = SummaryText
  /\ agents_invoked = <<"ParserAgent", "Data Agent", "Planning Agent">>
  /\ Len(calls) = 4

\* C2: when the parser succeeds with intent off_topic, process_query returns
\* a fixed redirect text (the off-topic text, or the not-course-related text
\* when is_course_related is false as well), no retrieval, ranking or
\* orchestrator call is made and agents_invoked is exactly [ParserAgent].
C2_OffTopicRedirect ==
  (parser_response.success /\ Parsed.intent = "off_topic")
    => /\ agents_invoked = <<"ParserAgent">>
       /\ CallsTo("vector_db") = {} /\ CallsTo("ranker") = {} /\ CallsTo("orchestrator") = {}
       /\ response = (IF Parsed.is_course_related THEN MsgOffTopic ELSE MsgNotCourseRelated)

C2_Witness ==
  /\ parser_response.success
  /\ Parsed.intent = "off_topic"
  /\ Parsed.is_course_related
  /\ pc = "returned"
  /\ response = MsgOffTopic

\* the case of C3: a successful parse, course related, not off topic, with
\* interests == ["CS"]
C3_Case ==
  /\ parser_response.success
  /\ Parsed.is_course_related
  /\ Parsed.intent # "off_topic"
  /\ Parsed.interests = <<"CS">>

\* C3 as stated: whatever else the model returned, the answer lists the three
\* fixed follow-up questions and the planning agent is not invoked.
C3_Original ==
  C3_Case => /\ response = ClarifyMessage(FixedClarifications)
             /\ ~InSeq("Planning Agent", agents_invoked)

\* C3 amended: the answer is the clarification text listing the model's own
\* suggested_clarifications when it returned any, and the three fixed
\* questions otherwise; neither the data agent nor the planning agent is invoked.
C3_ClarificationForCS ==
  C3_Case => /\ response =
                  ClarifyMessage(IF parser_reply.rec.suggested_clarifications # <<>>
                                 THEN parser_reply.rec.suggested_clarifications
                                 ELSE FixedClarifications)
             /\ agents_invoked = <<"ParserAgent">>
             /\ CallsTo("vector_db") = {} /\ CallsTo("ranker") = {}

C3_Witness ==
  /\ C3_Case
  /\ pc = "returned"
  /\ parser_reply.rec.suggested_clarifications = <<"Which area of CS?">>
  /\ response = ClarifyMessage(<<"Which area of CS?">>)

\* C4: when the data agent succeeds with zero courses, process_query returns
\* the rephrase text, the planning agent is not invoked, no ranking or
\* orchestrator call is made, and agents_invoked ends with Data Agent.
C4_ZeroCourses ==
  (data_response.success /\ Len(Courses) = 0)
    => /\ response = MsgNoCourses
       /\ agents_invoked = <<"ParserAgent", "Data Agent">>
       /\ CallsTo("ranker") = {} /\ CallsTo("orchestrator") = {}
       /\ pc \in {"returned", "input"}

C4_Witness ==
  /\ data_response.success
  /\ Len(Courses) = 0
  /\ pc = "returned"
  /\ Len(calls) = 2

\* a list holding only the literal interest "Computer Science" or "CS"
OnlyGenericInterest(interests) ==
  Len(interests) = 1 /\ interests[1] \in {"Computer Science", "CS"}

\* C5: for every record the model returns whose interests hold only
\* "Computer Science" or "CS", the record parse returns has
\* needs_clarification true and confidence min(original confidence, 0.65).
C5_GenericInterestCapped ==
  (parser_response.success /\ OnlyGenericInterest(parser_reply.rec.interests))
    => /\ Parsed.needs_clarification
       /\ Parsed.confidence = Min(parser_reply.rec.confidence, 65)
       /\ Parsed.confidence <= 65
       /\ Parsed.confidence <= parser_reply.rec.confidence

C5_Witness ==
  /\ parser_response.success
  /\ OnlyGenericInterest(parser_reply.rec.interests)
  /\ ~parser_reply.rec.needs_clarification
  /\ parser_reply.rec.confidence = 90
  /\ Parsed.confidence = 65

\* a stage's own external call raised inside the stage
StageRaised(target) == \E i \in CallsTo(target) : ~calls[i].ok

\* C6 as stated: whenever a stage raises during a turn, process_query answers
\* with the text of exactly one direct orchestrator call whose prompt is only
\* the formatted history plus the raw query.
C6_Original ==
  (pc = "returned" /\ \E t \in {"parser", "vector_db", "ranker"} : StageRaised(t))
    => /\ response = FallbackText
       /\ Cardinality(CallsTo("orchestrator")) = 1
       /\ \A i \in CallsTo("orchestrator") :
            /\ calls[i].parts = FallbackParts
            /\ calls[i].history = FormatHistory(history)
            /\ calls[i].query = user_query

\* C6 amended: an exception raised inside the parser or the data agent is
\* caught by that stage and answered with the stage's templated error text
\* without any orchestrator call, and one raised by the ranking model is
\* swallowed into a successful empty ranking.  The direct fallback call is
\* issued at most once, only after an exception reached the except clause of
\* process_query (an agent attribute that was never set, or the final
\* summarisation call raising); its prompt is only the formatted history plus
\* the raw query, and when it returns its text is the answer.
C6_FallbackOnlyFromExcept ==
  /\ Cardinality(FallbackCalls) <= 1
  /\ \A i \in FallbackCalls :
       /\ calls[i].parts = FallbackParts
       /\ calls[i].query = user_query
       /\ pc # "input" => calls[i].history = FormatHistory(history)
       /\ \/ ~cfg.data_agent
          \/ ~cfg.planning_agent
          \/ \E j \in SummaryCalls : j < i /\ ~calls[j].ok
  /\ (pc = "returned" /\ FallbackCalls # {}) => response = FallbackText
  /\ (pc = "returned" /\ \E j \in SummaryCalls : ~calls[j].ok)
       => (response = FallbackText /\ Cardinality(FallbackCalls) = 1)
  /\ (pc = "returned" /\ StageRaised("parser"))
       => /\ response = MsgParserTrouble \o Join(parser_response.errors, ", ")
          /\ parser_response.errors # <<>>
          /\ CallsTo("orchestrator") = {}
  /\ (pc = "returned" /\ StageRaised("vector_db"))
       => /\ response = MsgDataTrouble \o Join(data_response.errors, ", ")
          /\ data_response.errors # <<>>
          /\ CallsTo("orchestrator") = {}
  /\ StageRaised("ranker") => planning_response.success

C6_Witness ==
  /\ pc = "returned"
  /\ history # <<>>
  /\ response = FallbackText
  /\ \E j \in SummaryCalls : ~calls[j].ok
  /\ \E i \in FallbackCalls : calls[i].history = FormatHistory(history)

\* C7 as stated: when the parser model's reply holds no JSON object, invalid
\* JSON, or JSON without a required key, parse returns a degraded default
\* record (a success) and the pipeline goes on with it.
C7_Original ==
  parser_reply.kind \in {"nojson", "badjson", "missingkey"}
    => (parser_response.success /\ parser_response.data # None)

\* C8 as stated: when the ranking model's reply is malformed the ranking is
\* empty and the turn is a pipeline failure: no summarisation call is issued
\* and no recommendations are presented.
C8_Original ==
  rank_reply.kind \in {"nojson", "badjson", "noranked"}
    => /\ GetOr(GetOr(planning_response.data, EmptyDict).ranked_courses, <<>>) = <<>>
       /\ pc # "final"
       /\ SummaryCalls = {}
       /\ response # SummaryText

\* C9 as stated: every AgentResponse with success=False returned by an agent
\* operation carries a non-empty errors list and data None.
C9_Original ==
  (op_name # "" /\ ~op_response.success)
    => (op_response.errors # <<>> /\ op_response.data = None)

\* C10 as stated: within a turn each external call (parser, vector store,
\* ranker, the orchestrator's own) is issued at most once.
C10_Original ==
  \A t \in {"parser", "vector_db", "ranker", "orchestrator"} :
    Cardinality(CallsTo(t)) <= 1

\* C10 amended: within a turn the parser call, the vector-store query, the
\* ranking call and the summarisation call are each issued at most once and
\* none of them is issued again after it failed; the orchestrator's client is
\* called a second time only for the single fallback call, which comes after
\* a summarisation call only when that call raised, and nothing follows it.
C10_AtMostOnce ==
  /\ \A t \in {"parser", "vector_db", "ranker"} : Cardinality(CallsTo(t)) <= 1
  /\ Cardinality(SummaryCalls) <= 1
  /\ Cardinality(FallbackCalls) <= 1
  /\ \A i \in SummaryCalls, j \in FallbackCalls : i < j /\ ~calls[i].ok
  /\ \A j \in FallbackCalls : j = Len(calls)
  /\ \A i, j \in 1..Len(calls) :
       (i < j /\ ~calls[i].ok)
         => ~(calls[j].target = calls[i].target /\ calls[j].parts = calls[i].parts)

C10_Witness ==
  /\ Len(calls) = 5
  /\ Cardinality(CallsTo("orchestrator")) = 2
  /\ ~calls[4].ok
  /\ calls[5].parts = FallbackParts

(* ------------------------------- C11 ----------------------------------- *)
LoopEnded == pc \in {"done", "crashed"}

\* C11: in the driver's loop every failure of a turn is absorbed at that turn
\* and the loop goes back to reading input: an exception that leaves
\* process_query (the fallback call raising), an unbound orchestrator, a
\* process_query that returns no pair and a log write that fails all end with
\* the loop at its input prompt; only an exit keyword or the end of input
\* ends the loop.
C11_FailuresAbsorbed ==
  [][ /\ (pc = "raised" => pc' = "input")
      /\ (pc = "returned" => pc' = "input")
      /\ ((pc = "input" /\ user_input' = "query") => pc' \in {"parse", "input"})
      /\ ((error' # "" /\ error' # error) => pc' = "input")
      /\ ((LoopEnded' /\ ~LoopEnded)
            => (pc = "input" /\ user_input' \in {"keyword", "eof"})) ]_vars

\* a log write failed in the first turn, the fallback call raised in the
\* second, and the driver is reading its next input
C11_Witness ==
  /\ pc = "input"
  /\ turn = 2
  /\ error = "fallback call raised"
  /\ log_file.state = "partial"
  /\ Len(session.turns) = 1

(* -------------------------- C12 .. C18: retrieval ----------------------- *)
NonIncreasing(scores) ==
  \A i, j \in 1..Len(scores) : i < j => scores[i] >= scores[j]

RelevanceScores(relevant_courses) ==
  [i \in 1..Len(relevant_courses) |-> relevant_courses[i].relevance_score]

SemanticSimilarities(matched) ==
  [i \in 1..Len(matched) |-> matched[i].semantic_similarity]

\* C12: every list of courses a retrieval operation returns is in
\* non-increasing order of the similarity attached to its records: the
\* relevance_score of CourseRAG.retrieve_relevant_courses and the
\* semantic_similarity of DataAgent._rag_retrieve.
C12_SortedBySimilarity ==
  /\ NonIncreasing(RelevanceScores(retrieval.relevant_courses))
  /\ (op_name = "DataAgent.fetch_courses" /\ op_response.success)
       => NonIncreasing(SemanticSimilarities(op_response.data[1].courses))

\* a retrieval put the second course of the corpus before the first
C12_Witness ==
  /\ rag_op = "retrieve"
  /\ Len(retrieval.relevant_courses) = 2
  /\ retrieval.relevant_courses[1].code = rag_courses[2].code
  /\ retrieval.relevant_courses[1].relevance_score
       > retrieval.relevant_courses[2].relevance_score

\* the construction of CourseRAG and a call of retrieve_relevant_courses, as steps
ConstructStep == rag_op # "construct" /\ rag_op' = "construct"

RetrieveStep == rag_op \in {"construct", "retrieve"} /\ rag_op' = "retrieve"

Regenerated ==
  /\ ~built'.loaded
  /\ Len(built'.embed_calls) = Len(rag_courses')
  /\ course_texts' = [i \in 1..Len(rag_courses') |-> CreateCourseText(rag_courses'[i])]
  /\ Len(course_embeddings') = Len(rag_courses')
  /\ \A i \in 1..Len(rag_courses') :
       /\ built'.embed_calls[i].input = course_texts'[i]
       /\ course_embeddings'[i] = IF built'.embed_calls[i].ok
                                  THEN built'.embed_calls[i].embedding
                                  ELSE ZeroVector

SizeMismatch ==
  /\ cache_file.state = "json"
  /\ Len(cache_file.doc.embeddings) # Len(rag_courses')

\* C15 as stated: when the number of embeddings in the cache file differs
\* from the number of courses, nothing from the cache is used, embeddings are
\* regenerated for every course and the cache file is overwritten with the
\* regenerated index.
C15_Original ==
  [][ (ConstructStep /\ SizeMismatch)
        => /\ Regenerated
           /\ cache_file' = CacheFile("json", DumpCache(course_embeddings', course_texts')) ]_vars

\* C15 amended: with such a cache nothing from it is used and embeddings are
\* regenerated for every course; the cache file is then written again, and it
\* holds the regenerated index when that write succeeds and no index at all
\* when it fails under way.
C15_MismatchRegenerates ==
  [][ (ConstructStep /\ SizeMismatch)
        => /\ Regenerated
           /\ built'.cache_saved # "none"
           /\ (built'.cache_saved = "written"
                 => cache_file' = CacheFile("json", DumpCache(course_embeddings', course_texts')))
           /\ (built'.cache_saved = "write_failed" => cache_file'.state = "partial") ]_vars

\* a cache of one course met a list of two and was replaced
C15_Witness ==
  /\ rag_op = "construct"
  /\ ~built.loaded
  /\ ~built.cold_start
  /\ Len(rag_courses) = 2
  /\ built.cache_saved = "written"
  /\ cache_file.state = "json"
  /\ Len(cache_file.doc.embeddings) = 2

IndexOf(code) == CHOOSE i \in 1..Len(rag_courses) : rag_courses[i].code = code

C18_QueryEmbeddingFails ==
  [][ (RetrieveStep /\ ~retrieval'.query_ok)
        => /\ retrieval'.relevant_courses = <<>>
           /\ RagSearchCourses(retrieval'.relevant_courses).listed = <<>>
           /\ rag_courses' = rag_courses
           /\ course_embeddings' = course_embeddings
           /\ course_texts' = course_texts ]_vars

\* the query embedding failed over an index of two courses, with top_k 5
C18_Witness ==
  /\ rag_op = "retrieve"
  /\ ~retrieval.query_ok
  /\ retrieval.top_k = 5
  /\ Len(course_embeddings) = 2
  /\ retrieval.relevant_courses = <<>>

(* ------------------------------- C19 ----------------------------------- *)
\* the sessions that were in the file when the driver started
PriorSessions == IF LoopEnded THEN SubSeq(log, 1, Len(log) - 1) ELSE log

\* C19 as stated: the conversation log is append-only: the sessions that were
\* in the file when the driver started are still there, unchanged and in
\* order; the current session is in the file at most once, and exactly once
\* as soon as a turn was processed or the loop was left; the session's turns
\* in the file are those processed so far, one record per processed turn,
\* holding that turn's query, agents invoked and response.
C19_Original ==
  /\ log_file.state # "partial"
  /\ IsPrefix(PriorSessions, log_file.sessions)
  /\ Len(log_file.sessions) <= Len(PriorSessions) + 1
  /\ (session.turns # <<>> \/ pc = "done")
       => /\ Len(log_file.sessions) = Len(PriorSessions) + 1
          /\ log_file.sessions[Len(log_file.sessions)].session_id = session.session_id
          /\ log_file.sessions[Len(log_file.sessions)].turns = session.turns
  /\ Len(history) = 2 * Len(session.turns)
  /\ \A i \in 1..Len(session.turns) :
       /\ session.turns[i].user_query = history[2 * i - 1].content
       /\ session.turns[i].response = history[2 * i].content
       /\ session.turns[i].agents_invoked # <<>>

(* ------------------------------- C20 ----------------------------------- *)
\* the turn has a parsed record that passed the two redirects and carries
\* needs_clarification
ClarificationFlagged ==
  /\ pc # "parse"
  /\ parser_response.success
  /\ Parsed.needs_clarification

NoRetrievalOrRanking ==
  /\ CallsTo("vector_db") = {}
  /\ CallsTo("ranker") = {}
  /\ agents_invoked = <<"ParserAgent">>

\* C20 as stated: a turn whose parsed record has needs_clarification true
\* exits early with a clarification message; neither retrieval nor ranking
\* is invoked for it.
C20_Original ==
  ClarificationFlagged
    => /\ NoRetrievalOrRanking
       /\ pc \in {"returned", "input"}
       /\ response = ClarifyMessage(Parsed.suggested_clarifications)

\* C20 amended: a turn whose parsed record has needs_clarification true never
\* reaches ranking without retrieval, and it exits early, with the
\* clarification message that lists the record's suggested_clarifications and
\* with neither retrieval nor ranking invoked, exactly when the record is
\* course-related, is not off_topic, has a non-empty suggested_clarifications
\* list and has interests that are empty or exactly ["Computer Science"] or
\* ["CS"].  A record that fails one of the first two tests gets the redirect
\* text; every other flagged record is treated as an ordinary query and goes
\* on to the data agent.
C20_ClarificationOnlyWhenGeneric ==
  ClarificationFlagged =>
    IF ~Parsed.is_course_related
    THEN NoRetrievalOrRanking /\ response = MsgNotCourseRelated
    ELSE IF Parsed.intent = "off_topic"
    THEN NoRetrievalOrRanking /\ response = MsgOffTopic
    ELSE IF /\ Parsed.suggested_clarifications # <<>>
            /\ Parsed.interests \in { <<>>, <<"Computer Science">>, <<"CS">> }
    THEN /\ NoRetrievalOrRanking
         /\ response = ClarifyMessage(Parsed.suggested_clarifications)
    ELSE /\ response # ClarifyMessage(Parsed.suggested_clarifications)
         /\ IF cfg.data_agent
            THEN /\ InSeq("Data Agent", agents_invoked)
                 /\ (pc # "data" => CallsTo("vector_db") # {})
            ELSE /\ NoRetrievalOrRanking
                 /\ pc \in {"fallback", "raised", "returned", "input"}

\* a flagged record without interests ended the turn with the model's own
\* question, and no retrieval was made
C20_Witness ==
  /\ pc = "returned"
  /\ parser_response.success
  /\ Parsed.needs_clarification
  /\ Parsed.interests = <<>>
  /\ Parsed.intent = "course_recommendation"
  /\ response = ClarifyMessage(<<"Which area of CS?">>)
  /\ calls = << ParserPrompt(user_query, history, TRUE) >>

(* ------------------------------- C21 ----------------------------------- *)
\* the parser's vague-query rule fired on the record of this turn, and the
\* record passed the two redirects that come before the clarification branch
ParserRuleFired ==
  /\ pc # "parse"
  /\ parser_response.success
  /\ IsGenericInterest(Parsed.interests)
  /\ Parsed.is_course_related
  /\ Parsed.intent # "off_topic"

\* C21 as stated: whenever the parser's rule fires (a single interest equal
\* to "Computer Science" or "CS" in any letter case), the orchestrator returns
\* the clarification message and the data agent is not invoked.
C21_Original ==
  ParserRuleFired
    => /\ response = ClarifyMessage(Parsed.suggested_clarifications)
       /\ ~InSeq("Data Agent", agents_invoked)
       /\ CallsTo("vector_db") = {}

(* ------------------------------- C22 ----------------------------------- *)
\* the driver called process_query on a bound orchestrator with its last input
ProcessQueryCalled == orchestrator /\ user_input = "query"

\* the value process_query returned was not a pair: the driver's unpacking
\* "response, agents_invoked = ..." raised TypeError
ReturnedNoPair == pc = "input" /\ error = "TypeError"

\* C22 as stated: every call of process_query that returns yields a pair
\* (response text, agents_invoked list), in every configuration of the
\* orchestrator, also when the parser agent is None.
C22_Original == ProcessQueryCalled => ~ReturnedNoPair

(* ------------------------------- C23 ----------------------------------- *)
\* the parser has answered in this turn
ParserAnswered == parser_reply.kind # "none"

\* C23: the early exits of process_query have a fixed precedence.  A failed
\* parse yields the parser-trouble text whatever record the model sent; a
\* parsed record with is_course_related false yields the not-course-related
\* text whatever its intent; a course-related record with intent off_topic
\* yields the off-topic redirect even when it also asks for clarification; and
\* the clarification text is returned before any retrieval.  In all four
\* cases only the parser agent was invoked.
C23_ExitPrecedence ==
  ParserAnswered =>
    IF ~parser_response.success
    THEN /\ response = MsgParserTrouble \o Join(parser_response.errors, ", ")
         /\ NoRetrievalOrRanking
    ELSE IF ~Parsed.is_course_related
    THEN response = MsgNotCourseRelated /\ NoRetrievalOrRanking
    ELSE IF Parsed.intent = "off_topic"
    THEN response = MsgOffTopic /\ NoRetrievalOrRanking
    ELSE IF ClarificationExit(Parsed)
    THEN /\ response = ClarifyMessage(Parsed.suggested_clarifications)
         /\ NoRetrievalOrRanking
    ELSE response \notin {MsgNotCourseRelated, MsgOffTopic,
                          ClarifyMessage(Parsed.suggested_clarifications)}

\* a record that is not course related, is off_topic and asks for
\* clarification with generic interests got the not-course-related text
C23_Witness ==
  /\ pc = "returned"
  /\ parser_response.success
  /\ ~Parsed.is_course_related
  /\ Parsed.intent = "off_topic"
  /\ ClarificationExit(Parsed)
  /\ response = MsgNotCourseRelated

(* ------------------------------- C24 ----------------------------------- *)
\* the turn's record passed every check of the parser stage
PassedParserChecks ==
  /\ ParserAnswered
  /\ parser_response.success
  /\ Parsed.is_course_related
  /\ Parsed.intent # "off_topic"
  /\ ~ClarificationExit(Parsed)

\* process_query has returned or raised
QueryEnded == pc \in {"returned", "raised"}

\* C24 as stated: if the DataAgent could not be constructed, every turn that
\* passes the parser checks returns the message that the data retrieval
\* system is not available, with no data or planning agent invocation and no
\* fallback LLM call.
C24_Original ==
  (~cfg.data_agent /\ PassedParserChecks /\ QueryEnded)
    => /\ response = MsgNoDataAgent
       /\ agents_invoked = <<"ParserAgent">>
       /\ FallbackCalls = {}

(* ------------------------------- C25 ----------------------------------- *)
\* user and assistant messages alternate, two per recorded turn, in turn order
HistoryShape ==
  /\ Len(history) = 2 * Len(session.turns)
  /\ \A i \in 1..Len(session.turns) :
       /\ history[2 * i - 1] = [role |-> "user", content |-> session.turns[i].user_query]
       /\ history[2 * i] = [role |-> "assistant", content |-> session.turns[i].response]

\* while a turn is under way every prompt was built from the history of the
\* earlier turns only
StagesSeeEarlierTurns ==
  pc \in {"parse", "data", "plan", "final", "fallback", "returned", "raised"}
    => \A i \in 1..Len(calls) :
         calls[i].history =
           CASE calls[i].target = "parser" -> LastN(history, 4)
             [] calls[i].target = "ranker" -> LastN(history, 2)
             [] calls[i].target = "orchestrator" -> FormatHistory(history)
             [] OTHER -> <<>>

\* the step in which process_query hands a pair back to the driver
PairReturned == pc = "returned" /\ pc' = "input"

\* the history grows only by the two messages of a turn whose process_query
\* returned a pair
HistoryStep ==
  history' # history
    => /\ PairReturned
       /\ history' = history \o << [role |-> "user", content |-> user_query],
                                   [role |-> "assistant", content |-> response] >>

\* the step in which the except clause of the driver's loop reports a failure
\* of the turn
TurnRaised == user_input' = "query" /\ pc' = "input" /\ error' # "" /\ (pc # "input" \/ turn' # turn)

\* C25 as stated: the history alternates with two messages per processed
\* turn, in turn order, the stages see only earlier turns, and a turn that
\* raises leaves the history unchanged.
C25_Original ==
  [][ /\ HistoryShape'
      /\ StagesSeeEarlierTurns'
      /\ HistoryStep
      /\ (TurnRaised => history' = history) ]_vars

\* C25 amended: the history is an alternating user/assistant sequence with
\* exactly two messages per turn in which process_query returned a pair, in
\* turn order; an empty input, a turn in which process_query raises or returns
\* no pair, and the stages of process_query leave it unchanged, so each stage
\* sees only earlier turns.  A turn whose save_log raises has already had its
\* two messages appended: it raises and still changes the history.
C25_HistoryAlternates ==
  [][ /\ HistoryShape'
      /\ StagesSeeEarlierTurns'
      /\ HistoryStep
      /\ (TurnRaised /\ ~PairReturned => history' = history)
      /\ (TurnRaised /\ PairReturned => Len(history') = Len(history) + 2) ]_vars

\* the second turn's log could not be saved: the loop reported the error and
\* the history holds the messages of both turns
C25_Witness ==
  /\ pc = "input"
  /\ error = "OSError"
  /\ Len(history) = 4
  /\ Len(session.turns) = 2

(* ------------------------------- C26 ----------------------------------- *)
\* a CourseRAG object exists
Constructed == rag_op \in {"construct", "retrieve"}

\* C26 as stated: after CourseRAG construction through any path (cache hit,
\* no cache file, count mismatch, unreadable or incomplete cache file,
\* embedding failures) course_embeddings holds exactly one vector per course,
\* in course order: a rebuilt index holds at position i the vector appended
\* for the embedding call made for courses[i].
C26_Original ==
  Constructed
    => /\ Len(course_embeddings) = Len(rag_courses)
       /\ ~built.loaded
            => /\ Len(built.embed_calls) = Len(rag_courses)
               /\ \A i \in 1..Len(rag_courses) :
                    /\ built.embed_calls[i].input = CreateCourseText(rag_courses[i])
                    /\ course_embeddings[i] =
                         (IF built.embed_calls[i].ok THEN built.embed_calls[i].embedding
                          ELSE ZeroVector)

(* ------------------------------- C27 ----------------------------------- *)
\* C27 as stated: whenever CourseRAG loads its index from the cache file, the
\* cached text at every position i equals the text built from the current
\* courses[i]: a cache written for a different or reordered course list is
\* never used.
C27_Original ==
  (Constructed /\ built.loaded)
    => /\ Len(course_texts) = Len(rag_courses)
       /\ \A i \in 1..Len(rag_courses) : course_texts[i] = CreateCourseText(rag_courses[i])

(* ------------------------------- C28 ----------------------------------- *)
RankCoursesCalled == op_name = "PlanningAgent.rank_courses"

\* C28 as stated: every successful rank_courses response holds at most
\* min(len(courses), max_results) ranked courses, the number its metadata
\* reports as courses_ranked; the only failure is the one for an empty course
\* list, "No courses provided to rank".
C28_Original ==
  RankCoursesCalled =>
    IF op_response.success
    THEN /\ op_response.metadata # None
         /\ Len(GetOr(op_response.data[1].ranked_courses, <<>>))
              <= op_response.metadata[1].courses_ranked
    ELSE op_response.errors = <<"No courses provided to rank">>

(* ------------------------------- C29 ----------------------------------- *)
\* a code or an identifier with case, spaces and colons ignored
IgnoringCaseSpacesColons(s) == Remove(Remove(StrUpper(Strip(s)), " "), ":")

\* the code contains the identifier, both normalized the same way
CodeContains(code, chars) ==
  Contains(IgnoringCaseSpacesColons(code), IgnoringCaseSpacesColons(chars))

\* what C29 says of the answer r to lookup_course(chars)
LookupContract(chars, r) ==
  /\ (r.success /\ r.data[1].lookup_method = "exact_code_match")
       => CodeContains(r.data[1].courses[1].code, chars)
  /\ (\A i \in 1..Len(CoursesData) : ~CodeContains(CoursesData[i].code, chars))
       => LET title_matches ==
                TitleMatchList(LongTerms(Words(StrLower(Strip(chars)))), CoursesData) IN
          CASE Len(title_matches) = 1 ->
                 /\ r.success
                 /\ r.data[1].courses = title_matches
                 /\ ~r.data[1].needs_disambiguation
            [] Len(title_matches) > 1 ->
                 /\ r.success
                 /\ r.data[1].courses = title_matches
                 /\ r.data[1].needs_disambiguation
            [] OTHER -> ~r.success

\* C29 as stated: an answer with lookup_method 'exact_code_match' returns a
\* course whose code, ignoring case, spaces and colons, contains the
\* identifier normalized the same way; an identifier that matches no course
\* code this way falls through to title-keyword matching (one title match
\* returns that course, several return all with needs_disambiguation, none
\* returns a failure).
C29_Original ==
  op_name = "DataAgent.lookup_course"
    => \A ident \in Identifiers :
         (ident.is_str /\ op_response = LookupCourse(ident))
           => LookupContract(ident.chars, op_response)

(* ------------------------------- C30 ----------------------------------- *)
\* the verdicts of the checks made so far in this turn for one text
ChecksFor(context) ==
  SelectSeq(chat.checks, LAMBDA e : e.context = context)

\* the validator of one text returned valid: both of its checks ran, the
\* safety check first, and both passed
ValidatedBy(context) ==
  ChecksFor(context) = << CheckEvent("safety", context, TRUE), CheckEvent("llm", context, TRUE) >>

\* C30: in the chat loop of agent.py the agent is run only on an input for
\* which validate_user_input returned valid, an agent answer is printed only
\* if validate_agent_output returned valid for it, and within each validator
\* the classifier is consulted only after the content-safety check passed.
C30_ValidatedBeforeRunAndPrint ==
  /\ chat.agent_ran => (chat.is_valid_input = Some(TRUE) /\ ValidatedBy("input"))
  /\ chat.pc \in {"agent", "output_llm"} => chat.agent_ran
  /\ chat.agent_output # "" => chat.agent_ran
  /\ chat.printed = AgentAnswer
       => /\ chat.agent_ran
          /\ chat.agent_output = AgentAnswer
          /\ chat.is_valid_output = Some(TRUE)
          /\ ValidatedBy("output")
  /\ \A i \in 1..Len(chat.checks) :
       chat.checks[i].check = "llm"
         => /\ i > 1
            /\ chat.checks[i - 1] = CheckEvent("safety", chat.checks[i].context, TRUE)

\* an answer was printed after all four checks of the turn passed, in a run
\* whose tool call retrieved a course
C30_Witness ==
  /\ chat.pc = "input"
  /\ chat.printed = AgentAnswer
  /\ Len(chat.checks) = 4
  /\ rag_op = "retrieve"
  /\ retrieval.relevant_courses # <<>>

====
